---- MODULE Spec2Model ----
(***************************************************************************)
(* Token lifecycle and history ingestion of spotifytics                    *)
(* (src/functions.py, src/app.py).                                         *)
(*                                                                         *)
(* State: the "users" collection, the "user-history" collection, the Flask *)
(* session of each client, and for each client the position and the local  *)
(* variables of the handler it is running.  One action per database        *)
(* operation or network request of the code, so that every interleaving of *)
(* two concurrent handlers is a behaviour of the model.                    *)
(*                                                                         *)
(* Python None is the string "None"; a key that a dict or document does    *)
(* not have is "absent".  A refresh or access token is a record            *)
(* [owner, n]: the Spotify account it was issued for and a serial number.  *)
(***************************************************************************)
EXTENDS Integers, Sequences, FiniteSets, TLC

\* ---- bounds of the model ----
MaxCalls == 2
MaxSerial == 2
MaxBatch == 2

\* ---- program constants ----
DefaultExpiresIn == 3600
MsPerMinute == 60000

Procs == {"p1", "p2"}
UserIds == {"ann", "bob"}
PlayedAts == {"T1", "T2"}
Serials == 1..MaxSerial

NoneTok == [owner |-> "None", n |-> 0]
AbsentTok == [owner |-> "absent", n |-> 0]
Tokens == [owner : UserIds, n : Serials]

NoSession == "absent"
NoCode == "None"

\* A document of the users collection (functions.py:98-113, 145-149).
NoDoc ==
  [present |-> FALSE, refresh_token |-> AbsentTok, access_token |-> AbsentTok,
   expires_at |-> -1, display_name |-> "absent", created_at |-> -1]

\* The items the recently-played endpoint may return: the fields of an item
\* that get_recently_played_tracks reads.  name, artist, album, album_image
\* and uri are read and stored alike; name stands for them.  An item whose
\* name is "absent" lacks the key track["name"].
Items ==
  { [played_at |-> "T1", track |-> [name |-> "n1", duration_ms |-> 30000]],
    [played_at |-> "T1", track |-> [name |-> "n2", duration_ms |-> 90000]],
    [played_at |-> "T2", track |-> [name |-> "n1", duration_ms |-> 150000]],
    [played_at |-> "T2", track |-> [name |-> "absent", duration_ms |-> 30000]] }

RECURSIVE SeqsUpTo(_, _)
SeqsUpTo(S, n) ==
  IF n = 0 THEN {<< >>}
  ELSE LET shorter == SeqsUpTo(S, n - 1)
       IN  shorter \cup {Append(s, x) : s \in {t \in shorter : Len(t) = n - 1}, x \in S}

Batches == SeqsUpTo(Items, MaxBatch)

\* users    the users collection: user id -> document (NoDoc: none stored)
\* history  the user-history collection: a set of documents, unique by _id
\* session  the Flask session of each client: the user id under "user"
\* pc       where each client's handler stands
\* frame    the local variables of each client's handler
\* calls    the number of calls started so far (at most MaxCalls)
\* prev     what the caller of update_user_history kept of its last
\*          completed run: the user and the played_at values of the batch
VARIABLES users, history, session, pc, frame, calls, prev

vars == <<users, history, session, pc, frame, calls, prev>>

\* The local variables of a handler that is not running.
EmptyFrame ==
  [op |-> "none", user_id |-> "absent", code |-> "None",
   token_refresh |-> AbsentTok, refresh_token |-> AbsentTok,
   access_token |-> AbsentTok, expires_at |-> -1, data_refresh |-> AbsentTok,
   items |-> << >>, tracks |-> << >>, pending |-> {},
   result |-> "absent", returned |-> "absent", requests |-> 0,
   user_list |-> << >>, called |-> << >>]

NoPrev == [user_id |-> "absent", played |-> {}]

\* ---- pure functions of the code ----

\* A key that the payload enters as well.
DocIdWithName(user_id, t) == user_id \o "_" \o t.name \o "_" \o t.played_at

\* functions.py:189  doc_id = f"{user_id}_{t['played_at']}"
DocId(user_id, t) == user_id \o "_" \o t.played_at

\* functions.py:165-175: the dict built from one item; reading a key the
\* item lacks raises KeyError.
ItemOk(item) == item.track.name # "absent"
ParseItem(item) ==
  [name |-> item.track.name, duration |-> item.track.duration_ms,
   played_at |-> item.played_at]

ParseItems(items) == [i \in 1..Len(items) |-> ParseItem(items[i])]

\* functions.py:190-194: the document an UpdateOne inserts when no
\* document has its _id: the filter's _id and the $setOnInsert fields.
HistoryDoc(user_id, t) ==
  [_id |-> DocId(user_id, t), user_id |-> user_id, name |-> t.name,
   duration |-> t.duration, played_at |-> t.played_at]

\* An upsert with $set: the document with that _id is overwritten.
UpsertSet(coll, doc) == {d \in coll : d._id # doc._id} \cup {doc}

\* functions.py:190-194: UpdateOne({"_id": doc_id}, {"$setOnInsert": ...},
\* upsert=True) applied to the collection: a document with that _id is
\* left as it is.
UpsertSetOnInsert(coll, doc) ==
  IF \E d \in coll : d._id = doc._id THEN coll ELSE coll \cup {doc}

\* The number of tracks of the batch, as a return value.
ReturnCount(tracks) == ToString(Len(tracks))

\* functions.py:185, 197: update_user_history returns with a bare return
\* or by reaching its end: None.
UpdateUserHistoryReturn(tracks) == "None"

RECURSIVE SumDuration(_)
SumDuration(docs) ==
  IF docs = {} THEN 0
  ELSE LET d == CHOOSE x \in docs : TRUE
       IN  d.duration + SumDuration(docs \ {d})

\* int(round(x / 60000, 0)): Python rounds a half to the even neighbour.
RoundHalfEven(n, d) ==
  LET q == n \div d
      r == n % d
  IN  IF 2 * r < d THEN q
      ELSE IF 2 * r > d THEN q + 1
      ELSE IF q % 2 = 0 THEN q ELSE q + 1

HistoryOf(user_id) == {d \in history : d.user_id = user_id}
HistoryCount(user_id) == Cardinality(HistoryOf(user_id))
PlayedSet(tracks) == {tracks[i].played_at : i \in 1..Len(tracks)}

\* A read that answers None for a user that is not stored.
ReadAnyRefreshToken(user_id) ==
  [ok |-> TRUE,
   token |-> IF users[user_id].present /\ users[user_id].refresh_token # AbsentTok
             THEN users[user_id].refresh_token ELSE NoneTok]

\* functions.py:118-124 get_refresh_token_from_mongo: ok is FALSE where
\* the code raises ValueError.
GetRefreshTokenFromMongo(user_id) ==
  IF ~users[user_id].present \/ users[user_id].refresh_token = AbsentTok
  THEN [ok |-> FALSE, token |-> AbsentTok]
  ELSE [ok |-> TRUE, token |-> users[user_id].refresh_token]

\* datetime.utcnow(): the model's clock stands still.
Now == 0

\* functions.py:142  data.get("expires_in", 3600); -1 is a response with
\* no expires_in.
ExpiresIn(expires_in) == IF expires_in = -1 THEN DefaultExpiresIn ELSE expires_in

\* A replacement of the document by the two fields.
ReplaceAccess(doc, access_token, expires_at) ==
  [NoDoc EXCEPT !.present = TRUE, !.access_token = access_token,
                !.expires_at = expires_at]

\* functions.py:145-149: update_one with $set of access_token and
\* expires_at, upsert=True.
SetAccess(doc, access_token, expires_at) ==
  [doc EXCEPT !.present = TRUE, !.access_token = access_token,
              !.expires_at = expires_at]

\* functions.py:72: update_one with $set of refresh_token; without upsert
\* a user that is not stored stays so.
SetRefresh(doc, refresh_token) ==
  IF doc.present THEN [doc EXCEPT !.refresh_token = refresh_token] ELSE doc

\* functions.py:98-113: the document of a new user, from the profile
\* answer and the refresh token.
UserDoc(display_name, refresh_token) ==
  [NoDoc EXCEPT !.present = TRUE, !.refresh_token = refresh_token,
                !.display_name = display_name, !.created_at = Now]

\* ---- handlers ----

Ops ==
  {"callback", "get_access_token_from_refresh", "get_spotify_client",
   "get_recently_played_tracks", "update_user_history",
   "get_user_top_artists", "get_user_top_tracks", "get_user_info",
   "get_total_play_time"}

CredentialOps == Ops \ {"callback", "get_total_play_time"}

EntryPc(op) ==
  IF op = "callback" THEN "cb_code"
  ELSE IF op = "get_total_play_time" THEN "tpt_aggregate"
  ELSE "gat_find"

\* The locals of get_access_token_from_refresh end with its return.
GatReturned(f) ==
  [f EXCEPT !.refresh_token = AbsentTok, !.expires_at = -1, !.data_refresh = AbsentTok]

\* What is left of a frame when the handler is over: the call, the batch
\* it worked on (the items when they could not be read, else the tracks)
\* and the requests it sent.
Left(f) ==
  [EmptyFrame EXCEPT !.op = f.op, !.user_id = f.user_id, !.code = f.code,
                     !.token_refresh = f.token_refresh, !.items = f.items,
                     !.tracks = f.tracks,
                     !.requests = f.requests,
                     !.user_list = f.user_list, !.called = f.called]

\* An exception leaves the handler; f is the frame at that point.
Raise(p, f, error) ==
  /\ pc' = [pc EXCEPT ![p] = "raised"]
  /\ frame' = [frame EXCEPT ![p] = [Left(f) EXCEPT !.result = error]]

\* The handler returns ret.
Done(p, f, ret) ==
  /\ pc' = [pc EXCEPT ![p] = "done"]
  /\ frame' = [frame EXCEPT ![p] = [Left(f) EXCEPT !.result = "ok", !.returned = ret]]

Goto(p, f, label) ==
  /\ pc' = [pc EXCEPT ![p] = label]
  /\ frame' = [frame EXCEPT ![p] = f]

\* functions.py:185, 197: update_user_history returns ret.  Called from the
\* loop of update_history.py (line 28) it returns into the loop, its locals
\* gone; called by a client it ends the client's call.
UuhReturn(p, f, ret) ==
  IF f.op = "update_history"
  THEN Goto(p, [EmptyFrame EXCEPT !.op = f.op, !.requests = f.requests,
                                  !.user_list = f.user_list, !.called = f.called],
            "uh_loop")
  ELSE Done(p, f, ret)

\* One more request sent to accounts.spotify.com or api.spotify.com.
Request(f) == [f EXCEPT !.requests = @ + 1]

\* The users collection and the session cookies outlive a deployment: the
\* model starts with one stored user, whose refresh token is her own, no
\* history, one client with her session and one client with no session.
Init ==
  /\ users = [u \in UserIds |->
                IF u = "ann" THEN UserDoc("ann", [owner |-> "ann", n |-> 1]) ELSE NoDoc]
  /\ history = {}
  /\ session = [p \in Procs |-> IF p = "p1" THEN "ann" ELSE NoSession]
  /\ pc = [p \in Procs |-> "idle"]
  /\ frame = [p \in Procs |-> EmptyFrame]
  /\ calls = 0
  /\ prev = [p \in Procs |-> NoPrev]

\* A client requests /callback (app.py:42) or calls a function of
\* functions.py for a user id (update_history.py:28, app.py:90-99).
Invoke(p) ==
  /\ pc[p] = "idle"
  /\ calls < MaxCalls
  /\ calls' = calls + 1
  /\ \E o \in Ops :
       /\ pc' = [pc EXCEPT ![p] = EntryPc(o)]
       /\ IF o = "callback"
          THEN \E c \in {NoCode} \cup UserIds :
                 frame' = [frame EXCEPT ![p] = [EmptyFrame EXCEPT !.op = o, !.code = c]]
          ELSE \E u \in UserIds :
                 frame' = [frame EXCEPT ![p] = [EmptyFrame EXCEPT !.op = o, !.user_id = u]]
  /\ UNCHANGED <<users, history, session, prev>>

\* The caller takes the result; the caller of update_user_history keeps
\* the played_at values of the batch it has just merged.
Return(p) ==
  /\ pc[p] \in {"done", "raised"}
  /\ pc' = [pc EXCEPT ![p] = "idle"]
  /\ frame' = [frame EXCEPT ![p] = EmptyFrame]
  /\ prev' = [prev EXCEPT ![p] =
                IF pc[p] = "done" /\ frame[p].op = "update_user_history"
                THEN [user_id |-> frame[p].user_id, played |-> PlayedSet(frame[p].tracks)]
                ELSE NoPrev]
  /\ UNCHANGED <<users, history, session, calls>>

\* functions.py:129 (and :43): read the stored refresh token.
GatFind(p) ==
  /\ pc[p] = "gat_find"
  /\ LET got == GetRefreshTokenFromMongo(frame[p].user_id)
     IN  IF got.ok
         THEN Goto(p, [frame[p] EXCEPT !.refresh_token = got.token], "gat_post")
         ELSE Raise(p, frame[p], "ValueError")
  /\ UNCHANGED <<users, history, session, calls, prev>>

\* functions.py:137-143 (and :53-56): the refresh grant.  The server
\* rejects a token it did not issue; it may reject any token (revoked); its
\* answer may carry a new refresh token, which the code does not read.
\* The access token is the refresh token's record: it is issued for the
\* same account.  get_user_info keeps the access token alone.
GatPost(p) ==
  /\ pc[p] = "gat_post"
  /\ LET f == Request(frame[p])
     IN  \/ Raise(p, f, "HTTPError")
         \/ /\ f.refresh_token \in Tokens
            /\ \E expires_in \in {-1, DefaultExpiresIn},
                  new \in {AbsentTok} \cup
                           {t \in Tokens : t.owner = f.refresh_token.owner /\ t # f.refresh_token} :
                 IF f.op = "get_user_info"
                 THEN Goto(p, [GatReturned(f) EXCEPT !.access_token = f.refresh_token],
                           "gui_profile")
                 ELSE Goto(p,
                           [f EXCEPT !.access_token = f.refresh_token,
                                     !.expires_at = Now + ExpiresIn(expires_in),
                                     !.data_refresh = new],
                           "gat_update")
  /\ UNCHANGED <<users, history, session, calls, prev>>

\* functions.py:145-151: store the access token and return it to the
\* caller, which goes on with it.
GatUpdate(p) ==
  /\ pc[p] = "gat_update"
  /\ LET g == frame[p]
         f == GatReturned(g)
     IN  /\ users' = [users EXCEPT ![g.user_id] = SetAccess(@, g.access_token, g.expires_at)]
         /\ IF f.op = "get_access_token_from_refresh" THEN Done(p, f, "access_token")
            ELSE IF f.op = "get_spotify_client" THEN Done(p, f, "client")
            ELSE IF f.op = "callback" THEN Goto(p, f, "cb_current_user")
            ELSE IF f.op \in {"get_recently_played_tracks", "update_user_history",
                               "update_history"}
                 THEN Goto(p, f, "grp_get")
            ELSE Goto(p, f, "top_get")
  /\ UNCHANGED <<history, session, calls, prev>>

\* functions.py:59-63: get_user_info fetches the profile.
GuiProfile(p) ==
  /\ pc[p] = "gui_profile"
  /\ LET f == Request(frame[p])
     IN  \/ Raise(p, f, "HTTPError")
         \/ Done(p, f, "profile")
  /\ UNCHANGED <<users, history, session, calls, prev>>

\* functions.py:256-271, 296-313: the ranking request of
\* get_user_top_artists and get_user_top_tracks.
TopGet(p) ==
  /\ pc[p] = "top_get"
  /\ LET f == Request(frame[p])
     IN  \/ Raise(p, f, "HTTPError")
         \/ Done(p, f, "items")
  /\ UNCHANGED <<users, history, session, calls, prev>>

\* functions.py:157-177: fetch the recent plays and build the track
\* dicts; an item that lacks a key raises KeyError in the loop.
\* functions.py:184-196: update_user_history returns when there are no
\* tracks, else builds one UpdateOne per track.
GrpGet(p) ==
  /\ pc[p] = "grp_get"
  /\ LET f == Request(frame[p])
     IN  \/ Raise(p, f, "HTTPError")
         \/ \E items \in Batches :
              IF \A i \in 1..Len(items) : ItemOk(items[i])
              THEN LET g == [f EXCEPT !.tracks = ParseItems(items)]
                   IN  IF f.op = "get_recently_played_tracks"
                       THEN Done(p, f, "tracks")
                       ELSE IF Len(g.tracks) = 0
                       THEN UuhReturn(p, g, UpdateUserHistoryReturn(g.tracks))
                       ELSE Goto(p, [g EXCEPT !.pending = 1..Len(g.tracks)], "uuh_bulk")
              ELSE Raise(p, [f EXCEPT !.items = items], "KeyError")
  /\ UNCHANGED <<users, history, session, calls, prev>>

\* functions.py:197: bulk_write(operations, ordered=False): the server
\* applies the operations one at a time, in any order, each atomically
\* (a single-document upsert on _id); operations of concurrent calls
\* interleave.  After the last one the function returns.
UuhBulk(p) ==
  /\ pc[p] = "uuh_bulk"
  /\ LET f == frame[p]
     IN  \E i \in f.pending :
           /\ history' = UpsertSetOnInsert(history, HistoryDoc(f.user_id, f.tracks[i]))
           /\ LET g == [f EXCEPT !.pending = @ \ {i}]
              IN  IF g.pending = {}
                  THEN UuhReturn(p, g, UpdateUserHistoryReturn(f.tracks))
                  ELSE Goto(p, g, "uuh_bulk")
  /\ UNCHANGED <<users, session, calls, prev>>

\* functions.py:220-231: the $match / $group aggregation; result[0] of an
\* empty result raises IndexError.
GetTotalPlayTime(p) ==
  /\ pc[p] = "tpt_aggregate"
  /\ LET f == frame[p]
         matched == HistoryOf(f.user_id)
     IN  IF matched = {}
         THEN Raise(p, f, "IndexError")
         ELSE Done(p, f, ToString(RoundHalfEven(SumDuration(matched), MsPerMinute)))
  /\ UNCHANGED <<users, history, session, calls, prev>>

\* app.py:52-62: no code, answer 400; else exchange the code of the
\* account that granted access: token_info.get("refresh_token") is a
\* refresh token of that account, or None when the answer carries none;
\* then look the session's user up.
CbCode(p) ==
  /\ pc[p] = "cb_code"
  /\ IF frame[p].code = NoCode
     THEN Done(p, frame[p], "400")
     ELSE LET f == Request(frame[p])
          IN  \/ Raise(p, f, "SpotifyOauthError")
              \/ \E t \in {NoneTok} \cup {tok \in Tokens : tok.owner = f.code} :
                   LET g == [f EXCEPT !.token_refresh = t]
                   IN  IF session[p] = NoSession
                       THEN Raise(p, g, "KeyError")
                       ELSE Goto(p, [g EXCEPT !.user_id = session[p]], "gat_find")
  /\ UNCHANGED <<users, history, session, calls, prev>>

\* app.py:63-64: sp.current_user() answers with the profile of the
\* account the access token was issued for.
CbCurrentUser(p) ==
  /\ pc[p] = "cb_current_user"
  /\ LET f == Request(frame[p])
     IN  \/ Raise(p, f, "SpotifyException")
         \/ Goto(p, [f EXCEPT !.user_id = f.access_token.owner,
                              !.access_token = AbsentTok], "sud_find")
  /\ UNCHANGED <<users, history, session, calls, prev>>

\* app.py:237-252: /logout clears the client's session and redirects to
\* the login page; the cache files it removes are not part of the state.
Logout(p) ==
  /\ pc[p] = "idle"
  /\ calls < MaxCalls
  /\ calls' = calls + 1
  /\ session' = [session EXCEPT ![p] = NoSession]
  /\ Done(p, [EmptyFrame EXCEPT !.op = "logout"], "redirect")
  /\ UNCHANGED <<users, history, prev>>

\* app.py:70-77: the session is set and the client redirected.
CbSave(p, f) ==
  /\ session' = [session EXCEPT ![p] = f.user_id]
  /\ Done(p, f, "redirect")

\* functions.py:75, 115: store_user_data returns None; in /callback the
\* handler goes on to save the session, a direct caller has its result.
SudReturn(p, f) ==
  IF f.op = "callback"
  THEN CbSave(p, f)
  ELSE Done(p, f, "None") /\ UNCHANGED session

\* functions.py:71: existing_user.get("refresh_token") is None when the
\* document has no such field.
DictGet(value) == IF value = AbsentTok THEN NoneTok ELSE value

\* functions.py:68-75: find the user; a stored user with this refresh
\* token is left alone, one with another is updated in a second operation.
SudFind(p) ==
  /\ pc[p] = "sud_find"
  /\ LET f == frame[p]
         existing_user == users[f.user_id]
     IN  IF existing_user.present
         THEN IF DictGet(existing_user.refresh_token) # f.token_refresh
              THEN Goto(p, f, "sud_update") /\ UNCHANGED session
              ELSE SudReturn(p, f)
         ELSE Goto(p, f, "sud_post") /\ UNCHANGED session
  /\ UNCHANGED <<users, history, calls, prev>>

\* functions.py:72: update_one with $set of refresh_token, no upsert.
SudUpdate(p) ==
  /\ pc[p] = "sud_update"
  /\ LET f == frame[p]
     IN  /\ users' = [users EXCEPT ![f.user_id] = SetRefresh(@, f.token_refresh)]
         /\ SudReturn(p, f)
  /\ UNCHANGED <<history, calls, prev>>

\* functions.py:78-88: the refresh grant with the new refresh token.
SudPost(p) ==
  /\ pc[p] = "sud_post"
  /\ LET f == Request(frame[p])
     IN  \/ Raise(p, f, "HTTPError")
         \/ /\ f.token_refresh \in Tokens
            /\ Goto(p, [f EXCEPT !.access_token = f.token_refresh], "sud_profile")
  /\ UNCHANGED <<users, history, session, calls, prev>>

\* functions.py:91-95: the profile of the account of the access token.
SudProfile(p) ==
  /\ pc[p] = "sud_profile"
  /\ LET f == Request(frame[p])
     IN  \/ Raise(p, f, "HTTPError")
         \/ Goto(p, f, "sud_insert")
  /\ UNCHANGED <<users, history, session, calls, prev>>

\* functions.py:98-115: insert_one of the new document; an _id that is
\* stored by now raises DuplicateKeyError.
SudInsert(p) ==
  /\ pc[p] = "sud_insert"
  /\ LET f == frame[p]
     IN  IF users[f.user_id].present
         THEN Raise(p, f, "DuplicateKeyError") /\ UNCHANGED <<users, session>>
         ELSE /\ users' = [users EXCEPT ![f.user_id] =
                             UserDoc(f.access_token.owner, f.token_refresh)]
              /\ SudReturn(p, f)
  /\ UNCHANGED <<history, calls, prev>>

Next ==
  \E p \in Procs :
    \/ Invoke(p)
    \/ Return(p)
    \/ Logout(p)
    \/ CbCode(p)
    \/ CbCurrentUser(p)
    \/ SudFind(p)
    \/ SudUpdate(p)
    \/ SudPost(p)
    \/ SudProfile(p)
    \/ SudInsert(p)
    \/ GatFind(p)
    \/ GatPost(p)
    \/ GatUpdate(p)
    \/ GuiProfile(p)
    \/ TopGet(p)
    \/ GrpGet(p)
    \/ UuhBulk(p)
    \/ GetTotalPlayTime(p)

Spec == Init /\ [][Next]_vars

\* ---- store_user_data called for a user and a refresh token of hers ----

\* functions.py:66: a caller that has identified the user calls
\* store_user_data(user_id, refresh_token) with a refresh token issued for
\* that user.
StoreInvoke(p) ==
  /\ pc[p] = "idle"
  /\ calls < MaxCalls
  /\ calls' = calls + 1
  /\ \E u \in UserIds :
     \E t \in {tok \in Tokens : tok.owner = u} :
       /\ frame' = [frame EXCEPT ![p] =
                      [EmptyFrame EXCEPT !.op = "store_user_data", !.user_id = u,
                                         !.token_refresh = t]]
       /\ pc' = [pc EXCEPT ![p] = "sud_find"]
  /\ UNCHANGED <<users, history, session, prev>>

NextStore ==
  \E p \in Procs :
    \/ StoreInvoke(p)
    \/ Return(p)
    \/ SudFind(p)
    \/ SudUpdate(p)
    \/ SudPost(p)
    \/ SudProfile(p)
    \/ SudInsert(p)

\* Clients that call store_user_data, concurrently, from the state of Init:
\* ann is stored, bob is not.
SpecStore == Init /\ [][NextStore]_vars

\* ---- update_history.py, the scheduled script ----

\* The orders in which a find over the users of S can return them.
Orders(S) == {s \in SeqsUpTo(S, Cardinality(S)) :
                Len(s) = Cardinality(S) /\ \A u \in S : \E k \in 1..Len(s) : s[k] = u}

\* The users collection when the script starts: users who have logged in,
\* each stored with a refresh token of her own.
InitBatch ==
  /\ \E S \in SUBSET UserIds :
       users = [u \in UserIds |->
                  IF u \in S THEN UserDoc(u, [owner |-> u, n |-> 1]) ELSE NoDoc]
  /\ history = {}
  /\ session = [p \in Procs |-> NoSession]
  /\ pc = [p \in Procs |-> "idle"]
  /\ frame = [p \in Procs |-> EmptyFrame]
  /\ calls = 0
  /\ prev = [p \in Procs |-> NoPrev]

\* update_history.py:15: a run of the script starts and reads the _id of
\* every stored user into user_list.
BatchStart(p) ==
  /\ pc[p] = "idle"
  /\ calls < MaxCalls
  /\ calls' = calls + 1
  /\ \E user_list \in Orders({u \in UserIds : users[u].present}) :
       frame' = [frame EXCEPT ![p] =
                   [EmptyFrame EXCEPT !.op = "update_history", !.user_list = user_list]]
  /\ pc' = [pc EXCEPT ![p] = "uh_loop"]
  /\ UNCHANGED <<users, history, session, prev>>

\* update_history.py:28-29: the loop calls update_user_history with the
\* next id of user_list; after the last one the script ends.  Nothing in
\* the script catches an exception of the call.
BatchLoop(p) ==
  /\ pc[p] = "uh_loop"
  /\ LET f == frame[p]
         k == Len(f.called) + 1
     IN  IF k > Len(f.user_list)
         THEN Done(p, f, "exit")
         ELSE Goto(p, [f EXCEPT !.user_id = f.user_list[k],
                                !.called = Append(@, f.user_list[k])],
                   "gat_find")
  /\ UNCHANGED <<users, history, session, calls, prev>>

NextBatch ==
  \E p \in Procs :
    \/ BatchStart(p)
    \/ BatchLoop(p)
    \/ Return(p)
    \/ GatFind(p)
    \/ GatPost(p)
    \/ GatUpdate(p)
    \/ GrpGet(p)
    \/ UuhBulk(p)

SpecBatch == InitBatch /\ [][NextBatch]_vars

\* ---- claims ----

Finished(p) == pc[p] \in {"done", "raised"}
Stepped(p) == pc'[p] # pc[p] \/ frame'[p] # frame[p]
SecondRun(p) ==
  /\ frame[p].op = "update_user_history"
  /\ prev[p].user_id = frame[p].user_id
  /\ prev[p].played = PlayedSet(frame[p].tracks)

\* C1: every write of a run of update_user_history that follows a completed
\* run of the same caller for the same user, with a batch of the same
\* played_at values, leaves the number of history records of that user as
\* it was: the second run adds no record.
C1_IdempotentMerge ==
  [][\A p \in Procs :
       (pc[p] = "uuh_bulk" /\ SecondRun(p) /\ Stepped(p))
         => LET u == frame[p].user_id
            IN  Cardinality({d \in history' : d.user_id = u}) = HistoryCount(u)]_vars

C1_Witness ==
  \E p \in Procs :
    /\ pc[p] = "done" /\ SecondRun(p)
    /\ Len(frame[p].tracks) > 0
    /\ \E i \in 1..Len(frame[p].tracks) :
         HistoryDoc(frame[p].user_id, frame[p].tracks[i]) \notin history

\* C2: a stored history record stays as it is in every step, and no
\* second record appears for its (user_id, played_at).
C2_FirstWriterWins ==
  [][\A d \in history :
       /\ d \in history'
       /\ \A e \in history' :
            (e.user_id = d.user_id /\ e.played_at = d.played_at) => e = d]_vars

\* A merge has been applied for a key whose stored payload is another.
C2_Witness ==
  \E p \in Procs :
    /\ pc[p] \in {"uuh_bulk", "done"} /\ frame[p].op = "update_user_history"
    /\ \E i \in (1..Len(frame[p].tracks)) \ frame[p].pending :
         LET doc == HistoryDoc(frame[p].user_id, frame[p].tracks[i])
         IN  doc \notin history /\ \E d \in history : d._id = doc._id

\* The documents update_user_history can offer for a user.
Offered(user_id) ==
  {HistoryDoc(user_id, ParseItem(item)) : item \in {i \in Items : ItemOk(i)}}

RecordsAt(user_id, played_at) ==
  {d \in history : d.user_id = user_id /\ d.played_at = played_at}

C3_Ends ==
  \A p, q \in Procs :
    (/\ p # q
     /\ pc[p] = "done" /\ frame[p].op = "update_user_history"
     /\ pc[q] = "done" /\ frame[q].op = "update_user_history"
     /\ frame[p].user_id = frame[q].user_id)
      => \A t \in PlayedSet(frame[p].tracks) \cup PlayedSet(frame[q].tracks) :
           /\ Cardinality(RecordsAt(frame[p].user_id, t)) = 1
           /\ RecordsAt(frame[p].user_id, t) \subseteq Offered(frame[p].user_id)

C3_Writes ==
  \A p \in Procs :
    (pc[p] = "uuh_bulk" /\ Stepped(p))
      => \/ history' = history
         \/ \E i \in frame[p].pending :
              /\ history' = history \cup {HistoryDoc(frame[p].user_id, frame[p].tracks[i])}
              /\ RecordsAt(frame[p].user_id, frame[p].tracks[i].played_at) = {}

\* C3: when two calls of update_user_history for one user have both ended,
\* however their writes interleaved, the store holds exactly one record for
\* each played_at of the two batches, and it is a whole offered document;
\* every write of a call adds nothing or one whole document of its own
\* batch under a key that had no record.
C3_ConcurrentSyncSafety == []C3_Ends /\ [][C3_Writes]_vars

\* Two calls for one user, both ended, offered different payloads for one
\* played_at.
C3_Witness ==
  \E p, q \in Procs :
    /\ p # q
    /\ pc[p] = "done" /\ frame[p].op = "update_user_history"
    /\ pc[q] = "done" /\ frame[q].op = "update_user_history"
    /\ frame[p].user_id = frame[q].user_id
    /\ \E i \in 1..Len(frame[p].tracks), j \in 1..Len(frame[q].tracks) :
         /\ frame[p].tracks[i].played_at = frame[q].tracks[j].played_at
         /\ frame[p].tracks[i] # frame[q].tracks[j]
         /\ HistoryDoc(frame[p].user_id, frame[p].tracks[i]) \in history

\* C4 (as claimed): the refresh token stored for a user changes only in
\* the update of a callback whose code that same user granted, and only to
\* a token issued for that user.
C4_RefreshCredentialInvariant ==
  [][\A u \in UserIds :
       (users[u].present /\ users'[u].refresh_token # users[u].refresh_token)
         => /\ users'[u].refresh_token \in Tokens
            /\ users'[u].refresh_token.owner = u
            /\ \E p \in Procs :
                 /\ pc[p] = "sud_update" /\ Stepped(p)
                 /\ frame[p].code = u]_vars

NetworkErrors == {"SpotifyOauthError", "HTTPError", "SpotifyException"}

\* C5 (as claimed): a /callback whose code exchange succeeded and in which
\* no later request failed has ended only with a credential record stored
\* for the user who granted the code.  (A user who had a record still has
\* it: no action removes one.)
C5_RecordCreatedAtFirstLogin ==
  \A p \in Procs :
    (/\ Finished(p) /\ frame[p].op = "callback"
     /\ frame[p].token_refresh # AbsentTok
     /\ frame[p].result \notin NetworkErrors)
      => users[frame[p].code].present

\* C6: the first step of a credential-dependent operation for a user with
\* no stored record ends it with the unknown-user failure, and the
\* operation has sent no request.
C6_UnknownUserFailsFast ==
  [][\A p \in Procs :
       (/\ frame[p].op \in CredentialOps /\ pc[p] = "gat_find"
        /\ ~users[frame[p].user_id].present /\ Stepped(p))
         => /\ pc'[p] = "raised"
            /\ frame'[p].result = "ValueError"
            /\ frame'[p].requests = 0]_vars

C6_Witness ==
  \E p \in Procs :
    /\ pc[p] = "raised" /\ frame[p].result = "ValueError"
    /\ frame[p].op = "update_user_history"
    /\ ~users[frame[p].user_id].present
    /\ frame[p].requests = 0

\* The fields of a user document other than those of the access token.
Kept(doc) == [doc EXCEPT !.present = TRUE, !.access_token = AbsentTok, !.expires_at = -1]

\* C7: no step of get_access_token_from_refresh changes a stored refresh
\* token, whatever the refresh answer carried; it changes nothing but
\* access_token and expires_at of its user.
C7_RefreshPreservesIdentity ==
  [][\A p \in Procs :
       (pc[p] \in {"gat_find", "gat_post", "gat_update"} /\ Stepped(p))
         => \A u \in UserIds :
              /\ users'[u].refresh_token = users[u].refresh_token
              /\ Kept(users'[u]) = Kept(users[u])
              /\ (u # frame[p].user_id \/ pc[p] # "gat_update") => users'[u] = users[u]]_vars

\* Two refreshes for one user have stored an access token; the refresh
\* token is the one the user was stored with.
C7_Witness ==
  \E p \in Procs :
    /\ pc[p] = "done" /\ frame[p].op = "get_access_token_from_refresh"
    /\ \E q \in Procs \ {p} :
         /\ pc[q] = "done" /\ frame[q].op = "get_access_token_from_refresh"
         /\ frame[q].user_id = frame[p].user_id
    /\ users[frame[p].user_id].access_token \in Tokens
    /\ users[frame[p].user_id].refresh_token = [owner |-> "ann", n |-> 1]

ExactlyOneMalformed(items) ==
  Cardinality({i \in 1..Len(items) : ~ItemOk(items[i])}) = 1

\* C8 (as claimed): when update_user_history has ended on a batch with
\* exactly one malformed item, every other item of the batch has a record.
C8_BatchIndependence ==
  \A p \in Procs :
    (/\ Finished(p) /\ frame[p].op = "update_user_history"
     /\ ExactlyOneMalformed(frame[p].items))
      => \A i \in 1..Len(frame[p].items) :
           ItemOk(frame[p].items[i])
             => \E d \in history :
                  d._id = DocId(frame[p].user_id, ParseItem(frame[p].items[i]))

\* C9 (as claimed): get_total_play_time returns the stored durations of
\* the user, summed and rounded to minutes, and 0 when there are none.
C9_PlayTimeAggregation ==
  [][\A p \in Procs :
       (pc[p] = "tpt_aggregate" /\ Stepped(p))
         => /\ pc'[p] = "done"
            /\ frame'[p].returned =
                 ToString(RoundHalfEven(SumDuration(HistoryOf(frame[p].user_id)),
                                        MsPerMinute))]_vars

\* C10 (as claimed): a call of update_user_history that has returned has
\* returned the number of tracks of its batch.
C10_ReturnsCount ==
  \A p \in Procs :
    (pc[p] = "done" /\ frame[p].op = "update_user_history")
      => frame[p].returned = ReturnCount(frame[p].tracks)

\* C10 (amended): a call of update_user_history that has returned has
\* returned None, whatever its batch.
C10_ReturnsNone ==
  \A p \in Procs :
    (pc[p] = "done" /\ frame[p].op = "update_user_history")
      => frame[p].returned = "None"

C10_Witness ==
  \E p \in Procs :
    /\ pc[p] = "done" /\ frame[p].op = "update_user_history"
    /\ Len(frame[p].tracks) = MaxBatch
    /\ \A i \in 1..Len(frame[p].tracks) :
         HistoryDoc(frame[p].user_id, frame[p].tracks[i]) \in history
    /\ frame[p].returned = "None"

\* C11 (as claimed): two calls of store_user_data for one user, in which no
\* request failed, have both ended without failure, and the user's record
\* holds the refresh token that one of them supplied.
C11_AtomicCredentialUpserts ==
  \A p, q \in Procs :
    (/\ p # q
     /\ Finished(p) /\ frame[p].op = "store_user_data"
     /\ Finished(q) /\ frame[q].op = "store_user_data"
     /\ frame[p].user_id = frame[q].user_id
     /\ frame[p].result \notin NetworkErrors
     /\ frame[q].result \notin NetworkErrors)
      => /\ frame[p].result = "ok" /\ frame[q].result = "ok"
         /\ users[frame[p].user_id].present
         /\ users[frame[p].user_id].refresh_token
              \in {frame[p].token_refresh, frame[q].token_refresh}

\* C12 (as claimed): a run of update_history.py that is over has called
\* update_user_history for every user id of the user_list it read, also
\* when the call for one of them failed.
C12_ScheduledBatchCoverage ==
  \A p \in Procs :
    (Finished(p) /\ frame[p].op = "update_history")
      => frame[p].called = frame[p].user_list
====
